---- MODULE Spec2Model ----
(***************************************************************************)
(* Model of calcular_scores and score_final of src/data-profiling.py: the  *)
(* five-criterion data-quality scoring of a tabular dataset, and of the    *)
(* sections of the report that follow it (diagnostic, AI analysis,         *)
(* profiling, recommendations).                                            *)
(*                                                                         *)
(* Representation.                                                         *)
(*   - A string is a sequence of one-character strings, the characters     *)
(*     below U+0100 (Latin-1).                                             *)
(*   - A cell is <<>> (null: NaN / None / NaT) or <<v>>.                   *)
(*       int64      v is the integer                                       *)
(*       float64    v is the value in units of 1e-5 (fixed point)          *)
(*       bool       v is 0 (False) or 1 (True)                             *)
(*       object     v is a string                                          *)
(*       datetime64 v is [y, m, d, h] (h: hour of the day, 0 = midnight)   *)
(*   - A column is [name, dtype, cells]; a name is [str |-> TRUE, s |-> _] *)
(*     or [str |-> FALSE, n |-> _] (an integer label).                     *)
(*   - A dataset (df) is [nrows, columns]: the row count and the sequence  *)
(*     of columns, each with nrows cells.                                  *)
(*   - The scores are computed in float64, operation by operation as the   *)
(*     code does, and rounded by Python's round() (a half to the even      *)
(*     integer).                                                           *)
(*   - Dictionary keys are written without accents: "Consistencia",        *)
(*     "Precisao".                                                         *)
(***************************************************************************)
EXTENDS Integers, Sequences, FiniteSets, TLC

VARIABLES df, pc, scores, diagnostico_colunas, score_final, exc,
          OPENAI_API_KEY, chart, prompt, analise, profile, tabs

\* what the sections after score_final read and write
report == <<OPENAI_API_KEY, chart, prompt, analise, profile, tabs>>

vars == <<df, pc, scores, diagnostico_colunas, score_final, exc, report>>

----------------------------------------------------------------------------
(* Characters and strings                                                  *)

Digits == {"0", "1", "2", "3", "4", "5", "6", "7", "8", "9"}

DigitSeq == <<"0", "1", "2", "3", "4", "5", "6", "7", "8", "9">>

\* the letters below U+0100 that have both cases, in pairs: LowerSeq[i] is
\* str.lower() of UpperSeq[i]
LowerSeq == <<"a", "b", "c", "d", "e", "f", "g", "h", "i", "j", "k", "l", "m",
              "n", "o", "p", "q", "r", "s", "t", "u", "v", "w", "x", "y", "z",
              "à", "á", "â", "ã", "ä", "å", "æ", "ç", "è", "é", "ê", "ë", "ì",
              "í", "î", "ï", "ð", "ñ", "ò", "ó", "ô", "õ", "ö", "ø", "ù", "ú",
              "û", "ü", "ý", "þ">>

UpperSeq == <<"A", "B", "C", "D", "E", "F", "G", "H", "I", "J", "K", "L", "M",
              "N", "O", "P", "Q", "R", "S", "T", "U", "V", "W", "X", "Y", "Z",
              "À", "Á", "Â", "Ã", "Ä", "Å", "Æ", "Ç", "È", "É", "Ê", "Ë", "Ì",
              "Í", "Î", "Ï", "Ð", "Ñ", "Ò", "Ó", "Ô", "Õ", "Ö", "Ø", "Ù", "Ú",
              "Û", "Ü", "Ý", "Þ">>

\* the lowercase characters below U+0100 without a capital there
\* (U+00AA, U+00B5, U+00BA, U+00DF, U+00FF)
LowerOnly == {"ª", "µ", "º", "ß", "ÿ"}

\* the characters c with c.islower()
LowerChars == {LowerSeq[i] : i \in 1..Len(LowerSeq)} \cup LowerOnly

\* the characters c with c.isupper()
UpperChars == {UpperSeq[i] : i \in 1..Len(UpperSeq)}

\* the characters below U+0100 that str.strip() removes (c.isspace()): tab,
\* newline, vertical tab, form feed, carriage return, U+001C to U+001F, the
\* space, U+0085 and U+00A0
Whitespace == {"\t", "\n", "", "\f", "\r", "", "", "", "", " ", "", " "}

\* str.lower() on one character
LowerChar(c) ==
    IF c \in UpperChars
    THEN LowerSeq[CHOOSE i \in 1..Len(UpperSeq) : UpperSeq[i] = c]
    ELSE c

\* str.lower()
Lower(s) == [i \in 1..Len(s) |-> LowerChar(s[i])]

\* k in s, for strings k and s
Contains(s, k) ==
    \E i \in 0..(Len(s) - Len(k)) : \A j \in 1..Len(k) : s[i + j] = k[j]

\* any(k in s for k in ks)
ContainsAny(s, ks) == \E k \in ks : Contains(s, k)

\* str.strip()
Strip(s) ==
    LET keep == {i \in 1..Len(s) : s[i] \notin Whitespace}
    IN  IF keep = {} THEN <<>>
        ELSE LET lo == CHOOSE i \in keep : \A j \in keep : i <= j
                 hi == CHOOSE i \in keep : \A j \in keep : j <= i
             IN  SubSeq(s, lo, hi)

\* str.islower(): at least one cased character and no uppercase one
IsLower(s) ==
    /\ \E i \in 1..Len(s) : s[i] \in LowerChars
    /\ \A i \in 1..Len(s) : s[i] \notin UpperChars

\* str.isupper(): at least one cased character and no lowercase one
IsUpper(s) ==
    /\ \E i \in 1..Len(s) : s[i] \in UpperChars
    /\ \A i \in 1..Len(s) : s[i] \notin LowerChars

AllDigits(s) == \A i \in 1..Len(s) : s[i] \in Digits

\* length of the longest prefix of s made of digits
DigitRun(s) ==
    LET stops == {i \in 1..Len(s) : s[i] \notin Digits}
    IN  IF stops = {} THEN Len(s)
        ELSE (CHOOSE i \in stops : \A j \in stops : i <= j) - 1

\* where a pattern's $ can stand in s: at its end, and before a newline
\* that ends it.  The texts a pattern between ^ and $ has to cover.
UpToDollar(s) ==
    {s} \cup (IF Len(s) > 0 /\ s[Len(s)] = "\n"
              THEN {SubSeq(s, 1, Len(s) - 1)} ELSE {})

\* t is -?\d+([.,]\d+)? with the decimal separators seps
IsNumeral(t, seps) ==
    LET u == IF Len(t) > 0 /\ t[1] = "-" THEN Tail(t) ELSE t
        n == DigitRun(u)
    IN  /\ n >= 1
        /\ \/ n = Len(u)
           \/ /\ u[n + 1] \in seps
              /\ Len(u) >= n + 2
              /\ AllDigits(SubSeq(u, n + 2, Len(u)))

\* MatchNumeric with the comma as the only decimal separator
MatchNumeric_CommaOnly(s) == \E t \in UpToDollar(s) : IsNumeral(t, {","})

\* re.match(r'^-?\d+([.,]\d+)?$', s)
MatchNumeric(s) == \E t \in UpToDollar(s) : IsNumeral(t, {".", ","})

\* t is \d{2}[/-]\d{2}[/-]\d{4} or \d{4}[/-]\d{2}[/-]\d{2}
IsDate(t) ==
    /\ Len(t) = 10
    /\ \/ /\ \A i \in {1, 2, 4, 5, 7, 8, 9, 10} : t[i] \in Digits
          /\ \A i \in {3, 6} : t[i] \in {"/", "-"}
       \/ /\ \A i \in {1, 2, 3, 4, 6, 7, 9, 10} : t[i] \in Digits
          /\ \A i \in {5, 8} : t[i] \in {"/", "-"}

\* re.match(r'^\d{2}[/-]\d{2}[/-]\d{4}$|^\d{4}[/-]\d{2}[/-]\d{2}$', s), and
\* re.search of the same pattern (it starts with ^)
MatchDate(s) == \E t \in UpToDollar(s) : IsDate(t)

\* str.replace(r'\D', '', regex=True): the digits of s, in order
RECURSIVE OnlyDigits(_)
OnlyDigits(s) ==
    IF s = <<>> THEN <<>>
    ELSE IF Head(s) \in Digits THEN <<Head(s)>> \o OnlyDigits(Tail(s))
    ELSE OnlyDigits(Tail(s))

----------------------------------------------------------------------------
(* Conversions to text: Series.astype(str)                                 *)

\* decimal digits of a natural number
RECURSIVE NatStr(_)
NatStr(n) ==
    IF n < 10 THEN <<DigitSeq[n + 1]>>
    ELSE NatStr(n \div 10) \o <<DigitSeq[(n % 10) + 1]>>

\* str() of an int64
IntStr(n) == IF n < 0 THEN <<"-">> \o NatStr(-n) ELSE NatStr(n)

\* n written with at least w digits, zero padded
RECURSIVE Pad(_, _)
Pad(s, w) == IF Len(s) >= w THEN s ELSE Pad(<<"0">> \o s, w)

\* s without its trailing zeros
RECURSIVE StripZeros(_)
StripZeros(s) ==
    IF s # <<>> /\ s[Len(s)] = "0" THEN StripZeros(SubSeq(s, 1, Len(s) - 1))
    ELSE s

\* repr() of a float64 whose value is v * 1e-5: the shortest decimal, in
\* exponent notation when the decimal exponent is below -4 (here: |v| < 10)
FloatStr(v) ==
    LET a    == IF v < 0 THEN -v ELSE v
        sign == IF v < 0 THEN <<"-">> ELSE <<>>
        frac == StripZeros(Pad(NatStr(a % 100000), 5))
    IN  IF a # 0 /\ a < 10
        THEN sign \o NatStr(a) \o <<"e", "-", "0", "5">>
        ELSE sign \o NatStr(a \div 100000) \o <<".">> \o
             (IF frac = <<>> THEN <<"0">> ELSE frac)

\* str() of a bool
BoolStr(v) == IF v = 1 THEN <<"T", "r", "u", "e">> ELSE <<"F", "a", "l", "s", "e">>

\* text of one datetime64 value; the whole array is written without the
\* time of day only when every value of it is at midnight
DateStr(t, dateOnly) ==
    LET date == Pad(NatStr(t.y), 4) \o <<"-">> \o Pad(NatStr(t.m), 2) \o <<"-">>
                \o Pad(NatStr(t.d), 2)
    IN  IF dateOnly THEN date
        ELSE date \o <<" ">> \o Pad(NatStr(t.h), 2) \o <<":", "0", "0", ":", "0", "0">>

----------------------------------------------------------------------------
(* Integer and rational arithmetic                                         *)

\* floor(num / den), den > 0
Floor(num, den) == num \div den

\* Python round(num / den), den > 0: to the nearest integer, halves to even
Round(num, den) ==
    LET q == Floor(num, den)
        r == num - q * den
    IN  IF 2 * r < den THEN q
        ELSE IF 2 * r > den THEN q + 1
        ELSE IF q % 2 = 0 THEN q ELSE q + 1

Max(a, b) == IF a >= b THEN a ELSE b

Min(a, b) == IF a <= b THEN a ELSE b

----------------------------------------------------------------------------
(* float64 arithmetic                                                      *)
(*                                                                         *)
(* A float64 is held exactly, as Limbs digits in base Base: the first      *)
(* digit is the integer part, the others are the fraction (72 bits).  An   *)
(* operation computes the exact result of its operands and rounds it to    *)
(* Mantissa significant bits, a half to the even neighbour, as the         *)
(* hardware does.  The first digit is not bounded by Base, the others     *)
(* are: the digits hold 0 and the values from 2^-19 on, a fraction k / n   *)
(* (n < 2^19), a sum of such fractions, 100 times it, a cell of a numeric  *)
(* column, a quartile, a fence.  A value with a sign is [neg, mag]:        *)
(* whether it is below zero, and its digits.                               *)
(*                                                                         *)
(* An operation looks at its operands before anything else (x = Zero,      *)
(* x.neg = y.neg): TLC evaluates an operand where it is first used, and    *)
(* the evaluations of a chain of operations would otherwise nest.          *)

Limbs == 7

LimbBits == 12

Base == 4096

Mantissa == 53

\* the sequence <<f[lo], ..., f[hi]>>
RECURSIVE ValuesFrom(_, _, _)
ValuesFrom(f, lo, hi) ==
    IF lo > hi THEN <<>>
    ELSE IF lo = hi THEN <<f[lo]>>
    ELSE LET mid == (lo + hi) \div 2
         IN  ValuesFrom(f, lo, mid) \o ValuesFrom(f, mid + 1, hi)

\* the sequence <<f[1], ..., f[n]>>
Values(f, n) == ValuesFrom(f, 1, n)

\* float(k), 0 <= k
FromInt(k) == Values([j \in 1..Limbs |-> IF j = 1 THEN k ELSE 0], Limbs)

Zero == FromInt(0)

\* the number of bits of x, 0 <= x
RECURSIVE BitLen(_)
BitLen(x) == IF x = 0 THEN 0 ELSE 1 + BitLen(x \div 2)

\* the float64 nearest to the digits v followed by a tail that is not zero
\* exactly when sticky.  Bits are counted from the last bit of the last
\* digit: lead is the leading bit of v, cut the last bit that is kept.
Round53(v, sticky) ==
    LET nz == {j \in 1..Limbs : v[j] # 0}
    IN  IF nz = {} THEN v
        ELSE
        LET t    == CHOOSE j \in nz : \A i \in nz : j <= i
            lead == LimbBits * (Limbs - t) + BitLen(v[t]) - 1
            cut  == lead - (Mantissa - 1)
        IN  IF cut <= 0 THEN v
            ELSE
            LET c     == Limbs - (cut \div LimbBits)
                p     == cut % LimbBits
                unit  == 2^p
                low   == v[c] % unit
                kept  == v[c] - low
                first == IF p >= 1 THEN low ELSE v[c + 1]
                half  == IF p >= 1 THEN 2^(p - 1) ELSE Base \div 2
                from  == IF p >= 1 THEN c + 1 ELSE c + 2
                tail  == sticky \/ \E j \in from..Limbs : v[j] # 0
                odd   == (kept \div unit) % 2 = 1
                up    == first > half \/ (first = half /\ (tail \/ odd))
                inc   == IF up THEN unit ELSE 0
                carry(j) ==
                    /\ kept + inc >= Base
                    /\ \A i \in (j + 1)..(c - 1) : v[i] = Base - 1
            IN  Values([j \in 1..Limbs |->
                           IF j < c
                           THEN (IF ~carry(j) THEN v[j]
                                 ELSE IF j = 1 THEN v[j] + 1
                                 ELSE (v[j] + 1) % Base)
                           ELSE IF j = c THEN (kept + inc) % Base
                           ELSE 0],
                       Limbs)

\* the carry into digit j of the numbers t, one per digit (a borrow is a
\* negative carry)
RECURSIVE CarryInto(_, _)
CarryInto(t, j) ==
    IF j = Limbs THEN 0 ELSE (t[j + 1] + CarryInto(t, j + 1)) \div Base

\* the digits of the numbers t, one per digit: the carries are passed on,
\* up to the first digit, which keeps what it gets
Normal(t) ==
    Values([j \in 1..Limbs |->
               IF j = 1 THEN t[j] + CarryInto(t, j)
               ELSE (t[j] + CarryInto(t, j)) % Base],
           Limbs)

\* x + y
Add(x, y) ==
    IF x = Zero THEN y
    ELSE IF y = Zero THEN x
    ELSE Round53(Normal([j \in 1..Limbs |-> x[j] + y[j]]), FALSE)

\* x - y, x >= y
Sub(x, y) ==
    IF y = Zero THEN x
    ELSE IF x = y THEN Zero
    ELSE Round53(Normal([j \in 1..Limbs |-> x[j] - y[j]]), FALSE)

\* x * c for an integer c
MulInt(x, c) ==
    IF x = Zero THEN Zero
    ELSE Round53(Normal([j \in 1..Limbs |-> x[j] * c]), FALSE)

\* the remainder of the long division of v by d after the digits 1..j
RECURSIVE Rem(_, _, _)
Rem(v, d, j) == IF j = 0 THEN 0 ELSE (Rem(v, d, j - 1) * Base + v[j]) % d

\* v / d for an integer d > 0 (the first digit of v may be Base or more
\* when that of the quotient is not)
DivInt(v, d) ==
    IF v = Zero THEN Zero
    ELSE Round53(Values([j \in 1..Limbs |-> (Rem(v, d, j - 1) * Base + v[j]) \div d],
                        Limbs),
                 Rem(v, d, Limbs) # 0)

\* k / n for integers k >= 0 and n > 0: the mean of a boolean Series with k
\* True among n values, and Python's int / int
Ratio(k, n) == DivInt(FromInt(k), n)

\* round(x) of a float64: the nearest integer, a half to the even one
round(x) ==
    LET half == Base \div 2
        tail == \E j \in 3..Limbs : x[j] # 0
        up   == x[2] > half \/ (x[2] = half /\ (tail \/ x[1] % 2 = 1))
    IN  x[1] + (IF up THEN 1 ELSE 0)

\* res after: res += a[i] for i = from, ..., to (the first half of the
\* steps, then the second)
RECURSIVE Accumulate(_, _, _, _)
Accumulate(res, a, from, to) ==
    IF from > to THEN res
    ELSE IF from = to THEN Add(res, a[from])
    ELSE LET mid == (from + to) \div 2
         IN  Accumulate(Accumulate(res, a, from, mid), a, mid + 1, to)

\* x < y for the digits of two values
Less(x, y) ==
    \E j \in 1..Limbs : x[j] < y[j] /\ \A i \in 1..(j - 1) : x[i] = y[i]

\* the value with a sign (zero has none)
Signed(neg, mag) == [neg |-> neg /\ mag # Zero, mag |-> mag]

\* float(k) for an integer k
Float(k) == Signed(k < 0, FromInt(IF k < 0 THEN -k ELSE k))

\* the float64 nearest to k * 1e-5
FromFixed(k) ==
    Signed(k < 0,
           DivInt([j \in 1..Limbs |-> IF j = 1 THEN (IF k < 0 THEN -k ELSE k) ELSE 0],
                  100000))

\* x + y
plus(x, y) ==
    IF x.neg = y.neg THEN Signed(x.neg, Add(x.mag, y.mag))
    ELSE IF Less(x.mag, y.mag) THEN Signed(y.neg, Sub(y.mag, x.mag))
    ELSE Signed(x.neg, Sub(x.mag, y.mag))

\* x - y
minus(x, y) == plus(x, [neg |-> ~y.neg /\ y.mag # Zero, mag |-> y.mag])

\* x * (c / 4) for c in 0..6: x times the float64 0.0, 0.25, 0.5, 0.75 or
\* 1.5, the product rounded once
Quarters(x, c) ==
    IF x.mag = Zero \/ c = 0 THEN Signed(FALSE, Zero)
    ELSE Signed(x.neg, DivInt(Normal([j \in 1..Limbs |-> x.mag[j] * c]), 4))

\* x < y
lt(x, y) ==
    IF x.neg # y.neg THEN x.neg
    ELSE IF x.neg THEN Less(y.mag, x.mag)
    ELSE Less(x.mag, y.mag)

\* the accumulator j of numpy's sum, unrolled eight times, after b blocks
\* of eight values
RECURSIVE Lane(_, _, _)
Lane(a, j, b) ==
    IF b = 1 THEN a[j] ELSE Add(Lane(a, j, b - 1), a[8 * (b - 1) + j])

\* numpy's sum of a float64 array (Series.sum, inside Series.mean): in
\* order for fewer than 8 values; eight accumulators, added in pairs, then
\* the rest in order up to 128 values; the sums of two parts beyond
\* res = ((r[0] + r[1]) + (r[2] + r[3])) + ((r[4] + r[5]) + (r[6] + r[7]))
Pairs(r) ==
    Add(Add(Add(r[1], r[2]), Add(r[3], r[4])),
        Add(Add(r[5], r[6]), Add(r[7], r[8])))

RECURSIVE pairwise_sum(_)
pairwise_sum(a) ==
    IF Len(a) < 8 THEN Accumulate(Zero, a, 1, Len(a))
    ELSE IF Len(a) <= 128
    THEN Accumulate(Pairs([j \in 1..8 |-> Lane(a, j, Len(a) \div 8)]),
                    a, 8 * (Len(a) \div 8) + 1, Len(a))
    ELSE Add(pairwise_sum(SubSeq(a, 1, (Len(a) \div 2) - ((Len(a) \div 2) % 8))),
             pairwise_sum(SubSeq(a, (Len(a) \div 2) - ((Len(a) \div 2) % 8) + 1,
                                 Len(a))))

----------------------------------------------------------------------------
(* The dataset                                                             *)

Null == <<>>

\* len(df)
NumRows(d) == d.nrows

\* len(df.columns)
NumCols(d) == Len(d.columns)

IsNull(cell) == cell = Null

\* pd.api.types.is_numeric_dtype
is_numeric_dtype(col) == col.dtype \in {"int64", "float64", "bool"}

\* pd.api.types.is_datetime64_any_dtype
is_datetime64_any_dtype(col) == col.dtype = "datetime64"

\* pd.api.types.is_object_dtype
is_object_dtype(col) == col.dtype = "object"

NotNull(cell) == cell # Null

\* Series.dropna(): the non-null values of a column, in row order
dropna(col) ==
    LET kept == SelectSeq(col.cells, NotNull)
    IN  [i \in 1..Len(kept) |-> kept[i][1]]

\* Series.astype(str) on the non-null values of a column
astype_str(col) ==
    LET v == dropna(col)
        dateOnly == \A i \in 1..Len(v) : v[i].h = 0
    IN  [i \in 1..Len(v) |->
            CASE col.dtype = "int64"      -> IntStr(v[i])
              [] col.dtype = "float64"    -> FloatStr(v[i])
              [] col.dtype = "bool"       -> BoolStr(v[i])
              [] col.dtype = "datetime64" -> DateStr(v[i], col.dtype = "datetime64" /\ dateOnly)
              [] OTHER                    -> v[i]]

\* number of positions of a sequence that satisfy a predicate
Count(s, P(_)) == Cardinality({i \in 1..Len(s) : P(s[i])})

\* the subsequence of the columns that satisfy a predicate, in column order
SelectCols(d, P(_)) == SelectSeq(d.columns, P)

\* the names of a sequence of columns
Names(cols) == [i \in 1..Len(cols) |-> cols[i].name]

----------------------------------------------------------------------------
(* 1. COMPLETUDE                                                           *)

NullCount(col) == Count(col.cells, IsNull)

\* The thresholds of the code compare the float64 k / n with a literal
\* (0.3, 0.2, 0.1, 0.5, 0.9).  k / n is rounded as the literal is, and a
\* fraction that is not the literal differs from it by far more than the
\* rounding: the comparison of the integers decides the same.

\* NullPctAbove with the threshold 0.3 included
NullPctAbove_Inclusive(col) ==
    /\ Len(col.cells) > 0
    /\ 10 * NullCount(col) >= 3 * Len(col.cells)

\* null_pct[col] > 0.3; a NaN fraction (no rows) compares False
NullPctAbove(col) ==
    /\ Len(col.cells) > 0
    /\ 10 * NullCount(col) > 3 * Len(col.cells)

\* null_pct[null_pct > 0.3].index.tolist()
col_completude_ruim(d) == Names(SelectCols(d, NullPctAbove))

\* null_pct.mean() is NaN: no column, or every column's mean is NaN (no row)
NullMeanIsNaN(d) == NumCols(d) = 0 \/ NumRows(d) = 0

\* null_pct = df.isnull().mean(): the null fraction of each column
null_pct(d) ==
    Values([c \in 1..NumCols(d) |-> Ratio(NullCount(d.columns[c]), NumRows(d))],
           NumCols(d))

\* completude_score = (1 - null_pct.mean()) * 100
completude_score(d) ==
    MulInt(Sub(FromInt(1), DivInt(pairwise_sum(null_pct(d)), NumCols(d))), 100)

\* max(1, round(completude_score / 20)), null_pct.mean() not NaN
CompletudeScore(d) == Max(1, round(DivInt(completude_score(d), 20)))

----------------------------------------------------------------------------
(* 2. UNICIDADE                                                            *)

Row(d, i) == [c \in 1..NumCols(d) |-> d.columns[c].cells[i]]

\* df.duplicated(): the rows equal, in every column, to an earlier row
Duplicated(d) ==
    {i \in 1..NumRows(d) : \E j \in 1..(i - 1) : Row(d, j) = Row(d, i)}

\* df.duplicated().mean() is NaN: the frame is empty
DupMeanIsNaN(d) == NumCols(d) = 0 \/ NumRows(d) = 0

\* DupAbove with the threshold 0.2 included
DupAbove_Inclusive(d) ==
    /\ ~DupMeanIsNaN(d)
    /\ 5 * Cardinality(Duplicated(d)) >= NumRows(d)

\* df.duplicated().mean() > 0.2
DupAbove(d) ==
    /\ ~DupMeanIsNaN(d)
    /\ 5 * Cardinality(Duplicated(d)) > NumRows(d)

\* U+FE0F (variation selector 16): a character that a string of this
\* language cannot hold stands as its code point
VS16 == 65039

\* the text of the flag, U+26A0 U+FE0F and the words, in three pieces
MuitosDuplicados == <<"⚠", VS16, " Muitos registros duplicados">>

UnicidadeDiag(d) == IF DupAbove(d) THEN <<MuitosDuplicados>> ELSE <<>>

\* unicidade_score = (1 - df.duplicated().mean()) * 100
unicidade_score(d) ==
    MulInt(Sub(FromInt(1), Ratio(Cardinality(Duplicated(d)), NumRows(d))), 100)

\* UnicidadeScore without the floor max(1, .)
UnicidadeScore_NoFloor(d) == round(DivInt(unicidade_score(d), 20))

\* max(1, round(unicidade_score / 20)), the mean not NaN
UnicidadeScore(d) == Max(1, round(DivInt(unicidade_score(d), 20)))

----------------------------------------------------------------------------
(* 3. CONSISTENCIA                                                         *)

NotNumeric(s) == ~MatchNumeric(Strip(s))

NotDate(s) == ~MatchDate(Strip(s))

LooksNumeric(s) == MatchNumeric(Strip(s))

LooksDate(s) == MatchDate(Strip(s))

\* Inconsistente with the threshold 0.1 included
Inconsistente_Inclusive(col) ==
    LET valores == astype_str(col)
    IN  /\ Len(valores) > 0
        /\ IF is_numeric_dtype(col)
           THEN 10 * Count(valores, NotNumeric) >= Len(valores)
           ELSE IF is_datetime64_any_dtype(col)
           THEN 10 * Count(valores, NotDate) >= Len(valores)
           ELSE IF is_object_dtype(col)
           THEN \/ 2 * Count(valores, LooksNumeric) > Len(valores)
                \/ 2 * Count(valores, LooksDate) > Len(valores)
           ELSE FALSE

\* the body of the loop over df.columns: is the column appended to
\* colunas_inconsistentes
Inconsistente(col) ==
    LET valores == astype_str(col)
    IN  /\ Len(valores) > 0
        /\ IF is_numeric_dtype(col)
           THEN 10 * Count(valores, NotNumeric) > Len(valores)
           ELSE IF is_datetime64_any_dtype(col)
           THEN 10 * Count(valores, NotDate) > Len(valores)
           ELSE IF is_object_dtype(col)
           THEN \/ 2 * Count(valores, LooksNumeric) > Len(valores)
                \/ 2 * Count(valores, LooksDate) > Len(valores)
           ELSE FALSE

colunas_inconsistentes(d) == Names(SelectCols(d, Inconsistente))

\* the score over the columns that hold a value only
ConsistenciaScore_ValuedOnly(d) ==
    LET Valued(col) == astype_str(col) # <<>>
        counted     == Len(SelectSeq(d.columns, Valued))
        pct         == Sub(FromInt(1), Ratio(Len(colunas_inconsistentes(d)), counted))
    IN  IF counted = 0 THEN 5 ELSE Max(1, round(MulInt(pct, 5)))

\* tipo_correto_pct = 1 - (len(colunas_inconsistentes) / len(df.columns))
tipo_correto_pct(d) ==
    Sub(FromInt(1), Ratio(Len(colunas_inconsistentes(d)), NumCols(d)))

\* max(1, round(tipo_correto_pct * 5)), len(df.columns) > 0
ConsistenciaScore(d) == Max(1, round(MulInt(tipo_correto_pct(d), 5)))

----------------------------------------------------------------------------
(* 4. PRECISAO                                                             *)

\* df.select_dtypes(include=np.number): bool is not a number there
IsNumber(col) == col.dtype \in {"int64", "float64"}

numeric_cols(d) == SelectSeq(d.columns, IsNumber)

\* the k-th smallest (k = 0, 1, ...) of a non-empty sequence of numbers
OrderStat(v, k) ==
    CHOOSE x \in {v[i] : i \in 1..Len(v)} :
        /\ Cardinality({i \in 1..Len(v) : v[i] < x}) <= k
        /\ Cardinality({i \in 1..Len(v) : v[i] <= x}) > k

\* the float64 of a value of a numeric column
Float64(col, v) == IF col.dtype = "float64" THEN FromFixed(v) ELSE Float(v)

\* numpy's _lerp(a, b, t) for t = t4 / 4: a + (b - a) * t, and
\* b - (b - a) * (1 - t) where t >= 0.5
_lerp(a, b, t4) ==
    LET diff_b_a == minus(b, a)
    IN  IF t4 >= 2 THEN minus(b, Quarters(diff_b_a, 4 - t4))
        ELSE plus(a, Quarters(diff_b_a, t4))

\* Series.quantile(q4 / 4) of the non-null values v of a column, v not
\* empty: np.percentile with linear interpolation between the two order
\* statistics around the position (len - 1) * q4 / 4
quantile(col, v, q4) ==
    LET pos4 == q4 * (Len(v) - 1)
        lo   == pos4 \div 4
        hi   == Min(lo + 1, Len(v) - 1)
    IN  _lerp(Float64(col, OrderStat(v, lo)), Float64(col, OrderStat(v, hi)), pos4 % 4)

\* the values of v strictly below lower or strictly above upper
Outside(col, v, lower, upper) ==
    LET Out(x) == lt(Float64(col, x), lower) \/ lt(upper, Float64(col, x))
    IN  Count(v, Out)

\* the values of v outside Q1 - 1.5 * IQR and Q3 + 1.5 * IQR
Fenced(col, v, Q1, Q3, IQR) ==
    Outside(col, v, minus(Q1, Quarters(IQR, 6)), plus(Q3, Quarters(IQR, 6)))

\* IQR = Q3 - Q1
Quartiled(col, v, Q1, Q3) == Fenced(col, v, Q1, Q3, minus(Q3, Q1))

\* outliers.sum(): the rows of a column outside [Q1 - 1.5 IQR, Q3 + 1.5 IQR];
\* the quantiles skip the nulls, a null cell and NaN quantiles compare False
OutlierCount(col) ==
    LET v == dropna(col)
    IN  IF Len(v) = 0 THEN 0
        ELSE Quartiled(col, v, quantile(col, v, 1), quantile(col, v, 3))

\* outliers.mean() > 0.3
OutlierAbove(col) == 10 * OutlierCount(col) > 3 * Len(col.cells)

outlier_cols(d) == Names(SelectSeq(numeric_cols(d), OutlierAbove))

PrecisaoDiag(d) == IF numeric_cols(d) = <<>> THEN <<>> ELSE outlier_cols(d)

\* outlier_score after the loop: 0, then += (1 - outliers.mean()) for
\* each numeric column
outlier_score(d) ==
    LET nc == numeric_cols(d)
    IN  Accumulate(Zero,
                   Values([c \in 1..Len(nc) |->
                              Sub(FromInt(1), Ratio(OutlierCount(nc[c]), NumRows(d)))],
                          Len(nc)),
                   1, Len(nc))

\* scores["Precisão"], len(df) > 0
PrecisaoScore(d) ==
    LET n == Len(numeric_cols(d))
    IN  IF n = 0 THEN 5
        ELSE Max(1, round(MulInt(DivInt(outlier_score(d), n), 5)))

----------------------------------------------------------------------------
(* 5. INTEGRIDADE                                                          *)

SampleLimit == 100

KwPositivos ==
    {<<"v", "a", "l", "o", "r">>, <<"p", "r", "e", "ç", "o">>,
     <<"q", "u", "a", "n", "t", "i", "d", "a", "d", "e">>, <<"s", "a", "l", "d", "o">>}

KwBinario == {<<"b", "i", "n", "á", "r", "i", "o">>, <<"f", "l", "a", "g">>}

KwCodigos == {<<"i", "d">>, <<"c", "o", "d">>, <<"c", "d">>}

KwCpf == <<"c", "p", "f">>

KwCnpj == <<"c", "n", "p", "j">>

KwCep == <<"c", "e", "p">>

KwTelefone == <<"t", "e", "l", "e", "f", "o", "n", "e">>

KwDocumentos == {KwCpf, KwCnpj, KwTelefone, KwCep} \cup KwCodigos

KwDatas ==
    {<<"d", "a", "t", "a">>, <<"d", "t">>, <<"d", "a", "t", "e">>,
     <<"n", "a", "s", "c", "i", "m", "e", "n", "t", "o">>,
     <<"i", "n", "i", "c", "i", "o">>, <<"f", "i", "m">>}

\* the low 7 bits of the first outputs of the generator that
\* random_state=42 makes (np.random.RandomState(42): MT19937 seeded with
\* 42), as many as the shuffle of a column of up to 128 values draws
MT19937 == <<102, 51, 92, 14, 106, 71, 60, 20, 102, 121, 82, 86, 74, 74, 87, 116, 99, 103, 23, 2,
             21, 52, 1, 87, 107, 29, 37, 1, 63, 59, 20, 32, 75, 57, 21, 124, 107, 88, 48, 90,
             58, 126, 41, 127, 91, 59, 79, 14, 61, 61, 46, 61, 50, 107, 54, 115, 63, 120, 2, 100,
             50, 6, 20, 72, 38, 17, 3, 88, 59, 13, 113, 121, 8, 89, 52, 1, 83, 91, 110, 59,
             70, 43, 124, 7, 46, 34, 77, 80, 35, 49, 103, 3, 1, 125, 5, 53, 105, 3, 53, 92,
             62, 17, 89, 43, 33, 73, 61, 99, 13, 94, 47, 14, 71, 77, 86, 123, 120, 61, 39, 84,
             79, 108, 81, 110, 52, 23, 25, 88, 123, 59, 123, 108, 40, 28, 14, 44, 64, 88, 70, 8,
             87, 0, 107, 7, 87, 62, 10, 114, 80, 7, 34, 34, 32, 122, 4, 105, 102, 121, 40, 27,
             6, 72, 71, 11, 33, 32, 47, 118, 22>>

\* the least 2^k - 1 that is at least max
Mask(max) == (2^(CHOOSE k \in 0..7 : max < 2^k /\ (k = 0 \/ max >= 2^(k - 1)))) - 1

\* a draw in 0..max: outputs of the generator, from the one at pos on, are
\* masked until one is at most max.  The value and the next position.
RECURSIVE random_interval(_, _)
random_interval(max, pos) ==
    LET value == MT19937[pos] % (Mask(max) + 1)
    IN  IF value <= max THEN <<value, pos + 1>> ELSE random_interval(max, pos + 1)

\* one step of RandomState.shuffle on st = <<x, pos>>: x[i] and x[j] change
\* places, j drawn in 0..i from the output at pos on (x[i] is at position
\* i + 1)
swap(st, i) ==
    LET x    == st[1]
        draw == random_interval(i, st[2])
        j    == draw[1]
    IN  <<[x EXCEPT ![i + 1] = x[j + 1], ![j + 1] = x[i + 1]], draw[2]>>

\* RandomState.shuffle: the steps for i = hi down to lo, one after the other.
\* The steps above mid are evaluated (by the test on the position they
\* leave, which is never below 1) before those below start, which
\* keeps the evaluation of a hundred steps from nesting a hundred deep.
RECURSIVE shuffle(_, _, _)
shuffle(st, hi, lo) ==
    IF hi < lo THEN st
    ELSE IF hi = lo THEN swap(st, hi)
    ELSE LET mid   == (hi + lo) \div 2
             upper == shuffle(st, hi, mid + 1)
         IN  IF upper[2] >= 1 THEN shuffle(upper, mid, lo) ELSE upper

\* RandomState(42).permutation(n): 0, ..., n - 1 shuffled
permutation(n) == shuffle(<<Values([k \in 1..n |-> k - 1], n), 1>>, n - 1, 1)[1]

\* serie.dropna().astype(str).sample(min(100, n), random_state=42): the
\* values at the first min(100, n) places of the permutation of their n
\* positions
\* the values of v at the first min(100, n) places of the permutation p
take(v, p) ==
    Values([k \in 1..Min(SampleLimit, Len(v)) |-> v[p[k] + 1]],
           Min(SampleLimit, Len(v)))

sample(col) == take(astype_str(col), permutation(Len(dropna(col))))

\* the expected length without the entry of cpf
expected_length_NoCpf(col_lower) ==
    IF Contains(col_lower, KwCnpj) THEN 14
    ELSE IF Contains(col_lower, KwCep) THEN 8
    ELSE IF Contains(col_lower, KwTelefone) THEN 10
    ELSE 0

\* 0 when the name has no document keyword of known length (None)
expected_length(col_lower) ==
    IF Contains(col_lower, KwCpf) THEN 11
    ELSE IF Contains(col_lower, KwCnpj) THEN 14
    ELSE IF Contains(col_lower, KwCep) THEN 8
    ELSE IF Contains(col_lower, KwTelefone) THEN 10
    ELSE 0

\* the problem texts, character by character
\* "valores negativos indevidos"
ValoresNegativos ==
    <<"v", "a", "l", "o", "r", "e", "s", " ", "n", "e", "g", "a", "t", "i",
      "v", "o", "s", " ", "i", "n", "d", "e", "v", "i", "d", "o", "s">>

\* "valores fora de 0/1 em campo binário"
ForaDeZeroUm ==
    <<"v", "a", "l", "o", "r", "e", "s", " ", "f", "o", "r", "a", " ", "d",
      "e", " ", "0", "/", "1", " ", "e", "m", " ", "c", "a", "m", "p", "o",
      " ", "b", "i", "n", "á", "r", "i", "o">>

\* "capitalização inconsistente"
CapitalizacaoInconsistente ==
    <<"c", "a", "p", "i", "t", "a", "l", "i", "z", "a", "ç", "ã", "o", " ",
      "i", "n", "c", "o", "n", "s", "i", "s", "t", "e", "n", "t", "e">>

\* "tamanhos inconsistentes em códigos/IDs"
TamanhosInconsistentes ==
    <<"t", "a", "m", "a", "n", "h", "o", "s", " ", "i", "n", "c", "o", "n",
      "s", "i", "s", "t", "e", "n", "t", "e", "s", " ", "e", "m", " ", "c",
      "ó", "d", "i", "g", "o", "s", "/", "I", "D", "s">>

\* "tamanho incorreto para "
TamanhoIncorretoPara ==
    <<"t", "a", "m", "a", "n", "h", "o", " ", "i", "n", "c", "o", "r", "r",
      "e", "t", "o", " ", "p", "a", "r", "a", " ">>

\* "datas fora do padrão"
DatasForaDoPadrao ==
    <<"d", "a", "t", "a", "s", " ", "f", "o", "r", "a", " ", "d", "o", " ",
      "p", "a", "d", "r", "ã", "o">>

\* one check of a column: whether its guard holds (col_checks += 1), its
\* outcome ("pass": col_passes += 1, "fail": the problem is appended,
\* "none": neither) and its problem text
Check(applies, outcome, problema) ==
    [applies |-> applies, outcome |-> outcome, problema |-> problema]

PassIf(ok) == IF ok THEN "pass" ELSE "fail"

\* Check 1 failing on a minimum of zero too
CheckNegativos_OrZero(col, col_lower) ==
    LET v == dropna(col)
    IN  Check(ContainsAny(col_lower, KwPositivos),
              PassIf(~(\E i \in 1..Len(v) : v[i] <= 0)),
              ValoresNegativos)

\* Check 1: negatives in a field that should be positive (serie.min() < 0,
\* False when the column has no value)
CheckNegativos(col, col_lower) ==
    LET v == dropna(col)
    IN  Check(ContainsAny(col_lower, KwPositivos),
              PassIf(~(\E i \in 1..Len(v) : v[i] < 0)),
              ValoresNegativos)

\* the value 1 in the unit of the column's dtype
One(col) == IF col.dtype = "float64" THEN 100000 ELSE 1

\* Check 2: binary variables
CheckBinario(col, col_lower) ==
    LET v == dropna(col)
    IN  Check(ContainsAny(col_lower, KwBinario),
              PassIf(\A i \in 1..Len(v) : v[i] \in {0, One(col)}),
              ForaDeZeroUm)

\* Check 3: capitalization
CheckCapitalizacao(s) ==
    Check(TRUE,
          PassIf(~(\/ \E i \in 1..Len(s) : IsLower(s[i])
                   \/ \E i \in 1..Len(s) : IsUpper(s[i]))),
          CapitalizacaoInconsistente)

\* Check 4 with the expected length tried first
CheckCodigos_LengthFirst(col, col_lower, s) ==
    LET lens    == {Len(OnlyDigits(s[i])) : i \in 1..Len(s)}
        isCode  == ContainsAny(col_lower, KwCodigos)
        exp     == expected_length(col_lower)
    IN  Check(ContainsAny(col_lower, KwDocumentos),
              IF exp # 0 THEN PassIf(\A n \in lens : n = exp)
              ELSE IF isCode THEN PassIf(Cardinality(lens) <= 1)
              ELSE "none",
              IF exp # 0 THEN TamanhoIncorretoPara \o col.name.s
              ELSE TamanhosInconsistentes)

\* Check 4: codes and documents
CheckCodigos(col, col_lower, s) ==
    LET lens    == {Len(OnlyDigits(s[i])) : i \in 1..Len(s)}
        isCode  == ContainsAny(col_lower, KwCodigos)
        exp     == expected_length(col_lower)
    IN  Check(ContainsAny(col_lower, KwDocumentos),
              IF isCode THEN PassIf(Cardinality(lens) <= 1)
              ELSE IF exp # 0 THEN PassIf(\A n \in lens : n = exp)
              ELSE "none",
              IF isCode THEN TamanhosInconsistentes
              ELSE TamanhoIncorretoPara \o col.name.s)

\* Check 5: dates held as text (valid_dates.mean() < 0.9, False on NaN)
CheckDatas(col_lower, s) ==
    Check(ContainsAny(col_lower, KwDatas),
          PassIf(~(Len(s) > 0 /\ 10 * Count(s, MatchDate) < 9 * Len(s))),
          DatasForaDoPadrao)

\* the checks of one column whose guard holds, in the order of the code
ColChecks(col) ==
    LET col_lower == Lower(col.name.s)
        all == IF is_numeric_dtype(col)
               THEN <<CheckNegativos(col, col_lower), CheckBinario(col, col_lower)>>
               ELSE IF is_object_dtype(col)
               THEN <<CheckCapitalizacao(sample(col)),
                      CheckCodigos(col, col_lower, sample(col)),
                      CheckDatas(col_lower, sample(col))>>
               ELSE IF is_datetime64_any_dtype(col)
               THEN <<Check(TRUE, "pass", <<>>)>>
               ELSE <<>>
        Applies(c) == c.applies
    IN  SelectSeq(all, Applies)

col_checks(col) == Len(ColChecks(col))

col_passes(col) ==
    LET Passed(c) == c.outcome = "pass" IN Len(SelectSeq(ColChecks(col), Passed))

col_problemas(col) ==
    LET Failed(c) == c.outcome = "fail"
        f == SelectSeq(ColChecks(col), Failed)
    IN  [i \in 1..Len(f) |-> f[i].problema]

\* col.lower() raises AttributeError on a name that is not a string
NameNotStr(col) == ~col.name.str

HasChecks(col) == col_checks(col) > 0

HasProblemas(col) == col_checks(col) > 0 /\ col_problemas(col) # <<>>

\* sep.join(parts)
RECURSIVE join(_, _)
join(sep, parts) ==
    IF parts = <<>> THEN <<>>
    ELSE IF Len(parts) = 1 THEN parts[1]
    ELSE parts[1] \o sep \o join(sep, Tail(parts))

\* f"{col}: {', '.join(col_problemas)}"
Detalhe(col) == col.name.s \o <<":", " ">> \o join(<<",", " ">>, col_problemas(col))

\* integridade_detalhes after the loop: one text for each column with a
\* failed check
integridade_detalhes(d) ==
    LET f == SelectSeq(d.columns, HasProblemas)
    IN  [i \in 1..Len(f) |-> Detalhe(f[i])]

\* integridade_score after the loop: 0, then += col_passes / col_checks
\* for each column with a check
integridade_score(d) ==
    LET checked == SelectSeq(d.columns, HasChecks)
    IN  Accumulate(Zero,
                   Values([c \in 1..Len(checked) |->
                              Ratio(col_passes(checked[c]), col_checks(checked[c]))],
                          Len(checked)),
                   1, Len(checked))

\* total_checks: the columns with a check
total_checks(d) == Len(SelectSeq(d.columns, HasChecks))

\* scores["Integridade"]
IntegridadeScore(d) ==
    IF total_checks(d) = 0 THEN 5
    ELSE Max(1, round(MulInt(DivInt(integridade_score(d), total_checks(d)), 5)))

----------------------------------------------------------------------------
(* Score aggregation                                                       *)

RECURSIVE SumValues(_, _)
SumValues(f, keys) ==
    IF keys = {} THEN 0
    ELSE LET k == CHOOSE x \in keys : TRUE
         IN  f[k] + SumValues(f, keys \ {k})

\* the mean rounded to an integer, in tenths
ScoreFinal_Integer(sc) == 10 * Round(SumValues(sc, DOMAIN sc), Cardinality(DOMAIN sc))

\* 10 * round(np.mean(list(scores.values())), 1): the mean in tenths
ScoreFinal(sc) == Round(10 * SumValues(sc, DOMAIN sc), Cardinality(DOMAIN sc))

----------------------------------------------------------------------------
(* Datasets                                                                *)

MaxRows == 10

Str_valor == <<"v", "a", "l", "o", "r">>

Str_nome == <<"n", "o", "m", "e">>

Str_id == <<"i", "d">>

Str_Data == <<"D", "a", "t", "a">>

Str_dt == <<"d", "t">>

Str_flag_ativo == <<"f", "l", "a", "g", "_", "a", "t", "i", "v", "o">>

Str_saldo == <<"s", "a", "l", "d", "o">>

Str_codigo == <<"c", "o", "d", "i", "g", "o">>

Str_binario == <<"b", "i", "n", "á", "r", "i", "o">>

Str_cliente == <<"c", "l", "i", "e", "n", "t", "e">>

Str_Ana == <<"A", "n", "a">>

Str_CPF == <<"C", "P", "F">>

Str_cep_cidade == <<"c", "e", "p", "_", "c", "i", "d", "a", "d", "e">>

Str_dt_cpf == <<"d", "t", "_", "c", "p", "f">>

Str_data_cpf == <<"d", "a", "t", "a", "_", "c", "p", "f">>

\* "123.456.789-09": eleven digits
Str_cpf_valido ==
    <<"1", "2", "3", ".", "4", "5", "6", ".", "7", "8", "9", "-", "0", "9">>

StrName(s) == [str |-> TRUE, s |-> s]

IntName(n) == [str |-> FALSE, n |-> n]

\* a column of n cells: the first k hold a, the others b[i]
Column(name, dtype, n, k, a, b(_)) ==
    [name |-> name, dtype |-> dtype,
     cells |-> [i \in 1..n |-> IF i <= k THEN a ELSE b(i)]]

\* the shapes of column content, each with k leading special cells:
\*   nulls      float64     k nulls, then the distinct values 1.0, 2.0, ...
\*   tiny       float64     k times 1e-05, then 2.5 throughout
\*   names      object      k nulls, then the distinct texts Ana1, Ana2, ...
\*   nums       object      k times 12,5 after a tab and before a newline,
\*                          then Ana throughout
\*   dates      object      k times 05/01/2024 and a newline, then ana
\*                          throughout
\*   stamps     datetime64  k times 2024-01-05 10:00, then distinct midnights
\*   bools      bool        k times True, then False throughout
\*   ints       int64       k times 0, then the distinct values 1, 2, ...
\*   extremes   int64       k times -50 and 50 in turn, then 0 throughout
\*   docs       object      k times 123, then 123.456.789-09 throughout
ShapeColumn(name, shape, n, k) ==
    CASE shape = "nulls" ->
           Column(name, "float64", n, k, Null, LAMBDA i : <<i * 100000>>)
      [] shape = "tiny" ->
           Column(name, "float64", n, k, <<1>>, LAMBDA i : <<250000>>)
      [] shape = "names" ->
           Column(name, "object", n, k, Null, LAMBDA i : <<Str_Ana \o NatStr(i)>>)
      [] shape = "nums" ->
           Column(name, "object", n, k, <<<<"\t", "1", "2", ",", "5", "\n">>>>,
                  LAMBDA i : <<Str_Ana>>)
      [] shape = "dates" ->
           Column(name, "object", n, k,
                  <<<<"0", "5", "/", "0", "1", "/", "2", "0", "2", "4", "\n">>>>,
                  LAMBDA i : <<<<"a", "n", "a">>>>)
      [] shape = "stamps" ->
           Column(name, "datetime64", n, k,
                  <<[y |-> 2024, m |-> 1, d |-> 5, h |-> 10]>>,
                  LAMBDA i : <<[y |-> 2024, m |-> 1, d |-> i, h |-> 0]>>)
      [] shape = "bools" ->
           Column(name, "bool", n, k, <<1>>, LAMBDA i : <<0>>)
      [] shape = "ints" ->
           Column(name, "int64", n, k, <<0>>, LAMBDA i : <<i>>)
      [] shape = "extremes" ->
           Column(name, "int64", n, 0, <<0>>,
                  LAMBDA i : IF i > k THEN <<0>> ELSE IF i % 2 = 1 THEN <<-50>> ELSE <<50>>)
      [] shape = "docs" ->
           Column(name, "object", n, k, <<<<"1", "2", "3">>>>,
                  LAMBDA i : <<Str_cpf_valido>>)

\* the first column of a dataset: a name and a shape
FirstKinds ==
    {<<StrName(Str_valor), "nulls">>, <<StrName(Str_valor), "tiny">>,
     <<StrName(Str_nome), "names">>, <<StrName(Str_nome), "nums">>,
     <<StrName(Str_Data), "dates">>, <<StrName(Str_dt), "stamps">>,
     <<StrName(Str_flag_ativo), "bools">>, <<StrName(Str_id), "ints">>,
     <<IntName(0), "ints">>, <<StrName(Str_valor), "extremes">>,
     <<StrName(Str_flag_ativo), "ints">>, <<StrName(Str_CPF), "docs">>,
     <<StrName(Str_cep_cidade), "docs">>}

FirstColumns(n) == {ShapeColumn(kd[1], kd[2], n, k) : kd \in FirstKinds, k \in 0..n}

\* the second column of a two-column dataset: all null, all distinct,
\* constant, labelled by an integer, or text that looks numeric
ExtraColumns(n) ==
    {ShapeColumn(StrName(Str_saldo), "nulls", n, n),
     ShapeColumn(StrName(Str_codigo), "ints", n, 0),
     ShapeColumn(StrName(Str_binario), "bools", n, n),
     ShapeColumn(IntName(1), "ints", n, 0),
     ShapeColumn(StrName(Str_cliente), "nums", n, n)}

\* the datasets of n rows: no column, one column of any kind with any
\* number k of leading special cells, or such a column and a second one
GridDatasets(n) ==
    {[nrows |-> n, columns |-> <<>>]}
    \cup {[nrows |-> n, columns |-> <<c>>] : c \in FirstColumns(n)}
    \cup {[nrows |-> n, columns |-> <<c, e>>] : c \in FirstColumns(n), e \in ExtraColumns(n)}

\* the end-to-end dataset: 100 rows, id (sequential integers), valor (no
\* negative value, no outlier; its first k values null), nome (capitalized,
\* distinct)
EndToEnd(k) ==
    [nrows |-> 100,
     columns |-> <<ShapeColumn(StrName(Str_id), "ints", 100, 0),
                   ShapeColumn(StrName(Str_valor), "nulls", 100, k),
                   ShapeColumn(StrName(Str_nome), "names", 100, 0)>>]

\* 10 rows and 3 columns with 1, 10 and 10 nulls: the mean of the null
\* fractions is 0.7000000000000001 and completude_score / 20 is
\* 1.4999999999999996, where the fractions themselves give 1.5
HalfwayNulls ==
    [nrows |-> 10,
     columns |-> <<ShapeColumn(StrName(Str_valor), "nulls", 10, 1),
                   ShapeColumn(StrName(Str_saldo), "nulls", 10, 10),
                   ShapeColumn(StrName(Str_nome), "names", 10, 10)>>]

\* 101 rows, one more than the sample takes: a column CPF with the text
\* 123 in row k and 123.456.789-09 in every other row
Sampled(k) ==
    [nrows |-> 101,
     columns |-> <<Column(StrName(Str_CPF), "object", 101, 0, Null,
                          LAMBDA i : IF i = k THEN <<<<"1", "2", "3">>>>
                                     ELSE <<Str_cpf_valido>>)>>]

\* the row of a column of 101 values that the sample leaves out
LeftOut == 52

\* 10 rows and 3 integer columns with 2, 4 and 3 values at -50 or 50 among
\* zeros, all of them outliers: the sum of (1 - outlier fraction) is
\* 2.0999999999999996 and the score value 3.499999999999999, where the
\* fractions themselves give 3.5
ThreeOutliers ==
    [nrows |-> 10,
     columns |-> <<ShapeColumn(StrName(Str_id), "extremes", 10, 2),
                   ShapeColumn(StrName(Str_codigo), "extremes", 10, 4),
                   ShapeColumn(StrName(Str_cliente), "extremes", 10, 3)>>]

\* one float column holding the values v (in 1e-05)
FloatColumn(name, v) ==
    [name |-> name, dtype |-> "float64", cells |-> [i \in 1..Len(v) |-> <<v[i]>>]]

\* the column -3.6, 0.0, 2.4, 0.5, 3.4: Q1 is 0.0 and Q3 is 2.4, 1.5 * IQR
\* is 3.5999999999999996, and -3.6 is below the lower fence
\* -3.5999999999999996
FenceValues ==
    [nrows |-> 5,
     columns |-> <<FloatColumn(StrName(Str_codigo),
                               <<-360000, 0, 240000, 50000, 340000>>)>>]

\* 12 rows whose values are in the hundreds and thousands: the float64
\* column has the quartiles 92.9037 and 778.6662 (1.5 IQR is 1028.6) and
\* no outlier, the int64 column the quartiles 2250 and 3000 and the fences
\* 1125 and 4125, which leave its three zeros out
WideValues ==
    [nrows |-> 12,
     columns |-> <<FloatColumn(StrName(Str_valor),
                               <<39977500, 20782010, 7806500, 9784990, 602000,
                                 4910500, 83046500, 9784990, 83046500, 76139990,
                                 83046500, 39977500>>),
                   [name |-> StrName(Str_id), dtype |-> "int64",
                    cells |-> <<<<0>>, <<3000>>, <<3000>>, <<0>>, <<3000>>,
                                <<3000>>, <<3000>>, <<0>>, <<3000>>, <<3000>>,
                                <<3000>>, <<3000>>>>]>>]

\* the column a/10, (a+d)/10, (a+d)/10, (a+2d)/10, whose least and greatest
\* values are the fences Q1 - 1.5 IQR and Q3 + 1.5 IQR themselves: the
\* float64 fences are those values or their neighbours (0.0, 0.1, 0.1, 0.2
\* has the fences 2.7755575615628914e-17 and 0.19999999999999998)
Steps(a, d) ==
    [nrows |-> 4,
     columns |-> <<FloatColumn(StrName(Str_valor),
                               <<a * 10000, (a + d) * 10000, (a + d) * 10000,
                                 (a + 2 * d) * 10000>>)>>]

\* 2 rows and 5 textual columns whose checks pass 0 of 1, 0 of 1, 1 of 2,
\* 2 of 3 and 1 of 3: the sum of passes / checks is 1.4999999999999998 and
\* the score value 1.4999999999999996, where the fractions themselves give
\* 1.5
FiveChecked ==
    [nrows |-> 2,
     columns |-> <<ShapeColumn(StrName(Str_nome), "dates", 2, 0),
                   ShapeColumn(StrName(Str_cliente), "dates", 2, 0),
                   ShapeColumn(StrName(Str_CPF), "docs", 2, 1),
                   ShapeColumn(StrName(Str_dt_cpf), "dates", 2, 2),
                   ShapeColumn(StrName(Str_data_cpf), "nums", 2, 0)>>]

\* the datasets of up to MaxRows rows and up to two columns, and those
\* that take more rows, more columns or values that are not whole numbers
Datasets ==
    UNION {GridDatasets(n) : n \in 0..MaxRows}
    \cup {EndToEnd(0), EndToEnd(40), HalfwayNulls, Sampled(1), Sampled(LeftOut)}
    \cup {ThreeOutliers, FenceValues, FiveChecked, WideValues}
    \cup {Steps(a, d) : a \in 0..3, d \in 1..3}

----------------------------------------------------------------------------
(* The run: calcular_scores(df), score_final, then the report sections     *)

Criterios == {"Completude", "Unicidade", "Consistencia", "Precisao", "Integridade"}

NoScores == [c \in {} |-> 0]

None == <<>>

Init ==
    /\ df \in Datasets
    /\ pc = "completude"
    /\ scores = NoScores
    /\ diagnostico_colunas = [c \in Criterios |-> <<>>]
    /\ score_final = None
    /\ exc = "none"
    /\ OPENAI_API_KEY \in BOOLEAN
    /\ chart = None
    /\ prompt = None
    /\ analise = "none"
    /\ profile = FALSE
    /\ tabs = None

Raise(e) ==
    /\ pc' = "raised"
    /\ exc' = e
    /\ UNCHANGED <<df, scores, diagnostico_colunas, score_final, report>>

Store(criterio, score, diag, next) ==
    /\ scores' = (criterio :> score) @@ scores
    /\ diagnostico_colunas' = [diagnostico_colunas EXCEPT ![criterio] = diag]
    /\ pc' = next
    /\ UNCHANGED <<df, score_final, exc, report>>

\* round() of a NaN mean raises ValueError
Completude ==
    /\ pc = "completude"
    /\ IF NullMeanIsNaN(df) THEN Raise("ValueError")
       ELSE Store("Completude", CompletudeScore(df), col_completude_ruim(df), "unicidade")

Unicidade ==
    /\ pc = "unicidade"
    /\ IF DupMeanIsNaN(df) THEN Raise("ValueError")
       ELSE Store("Unicidade", UnicidadeScore(df), UnicidadeDiag(df), "consistencia")

\* len(df.columns) = 0 raises ZeroDivisionError
Consistencia ==
    /\ pc = "consistencia"
    /\ IF NumCols(df) = 0 THEN Raise("ZeroDivisionError")
       ELSE Store("Consistencia", ConsistenciaScore(df), colunas_inconsistentes(df),
                  "precisao")

\* outliers.mean() is NaN on a frame without rows
Precisao ==
    /\ pc = "precisao"
    /\ IF numeric_cols(df) # <<>> /\ NumRows(df) = 0 THEN Raise("ValueError")
       ELSE Store("Precisao", PrecisaoScore(df), PrecisaoDiag(df), "integridade")

\* the loop stops at the first column whose name has no lower(); otherwise
\* the function returns scores and diagnostico_colunas
Integridade ==
    /\ pc = "integridade"
    /\ IF \E c \in 1..NumCols(df) : NameNotStr(df.columns[c])
       THEN Raise("AttributeError")
       ELSE Store("Integridade", IntegridadeScore(df), integridade_detalhes(df),
                  "returned")

\* score_final = round(np.mean(list(scores.values())), 1)
ComputeScoreFinal ==
    /\ pc = "returned"
    /\ score_final' = <<ScoreFinal(scores)>>
    /\ pc' = "done"
    /\ UNCHANGED <<df, scores, diagnostico_colunas, exc, report>>

\* the criteria whose score is at most 3
Baixos(sc) == {c \in DOMAIN sc : sc[c] <= 3}

\* Seção 1: the overall score, the scores one by one and
\* plot_radar_chart(scores)
Diagnostico ==
    /\ pc = "done"
    /\ chart' = <<scores>>
    /\ pc' = "analise"
    /\ UNCHANGED <<df, scores, diagnostico_colunas, score_final, exc,
                   OPENAI_API_KEY, prompt, analise, profile, tabs>>

\* Seção 2 without a key: if OPENAI_API_KEY is false, nothing is asked
SemChave ==
    /\ pc = "analise"
    /\ ~OPENAI_API_KEY
    /\ pc' = "profiling"
    /\ UNCHANGED <<df, scores, diagnostico_colunas, score_final, exc, report>>

\* Seção 2 with a key: the prompt is built from scores and
\* diagnostico_colunas and client.chat.completions.create is called
Request ==
    /\ pc = "analise"
    /\ OPENAI_API_KEY
    /\ prompt' = <<[scores |-> scores, baixos |-> Baixos(scores),
                    diagnostico |-> diagnostico_colunas]>>
    /\ analise' = "requested"
    /\ pc' = "request"
    /\ UNCHANGED <<df, scores, diagnostico_colunas, score_final, exc,
                   OPENAI_API_KEY, chart, profile, tabs>>

\* the request returns and the three cards of the analysis are shown
Response ==
    /\ pc = "request"
    /\ analise' = "shown"
    /\ pc' = "profiling"
    /\ UNCHANGED <<df, scores, diagnostico_colunas, score_final, exc,
                   OPENAI_API_KEY, chart, prompt, profile, tabs>>

\* an exception escaping the try block
RequestError_Uncaught ==
    /\ pc = "request"
    /\ analise' = "error"
    /\ pc' = "raised"
    /\ exc' = "Exception"
    /\ UNCHANGED <<df, scores, diagnostico_colunas, score_final,
                   OPENAI_API_KEY, chart, prompt, profile, tabs>>

\* the request, or the reading of its answer, raises: except Exception
\* shows two error messages and the script goes on
RequestError ==
    /\ pc = "request"
    /\ analise' = "error"
    /\ pc' = "profiling"
    /\ UNCHANGED <<df, scores, diagnostico_colunas, score_final, exc,
                   OPENAI_API_KEY, chart, prompt, profile, tabs>>

\* Seção 3: the ProfileReport of the dataset is rendered (the report
\* library is taken to return)
Profiling ==
    /\ pc = "profiling"
    /\ profile' = TRUE
    /\ pc' = "recomendacoes"
    /\ UNCHANGED <<df, scores, diagnostico_colunas, score_final, exc,
                   OPENAI_API_KEY, chart, prompt, analise, tabs>>

\* Seção 4: one tab per criterion, with a warning where scores[c] <= 3
Recomendacoes ==
    /\ pc = "recomendacoes"
    /\ tabs' = <<Baixos(scores)>>
    /\ pc' = "end"
    /\ UNCHANGED <<df, scores, diagnostico_colunas, score_final, exc,
                   OPENAI_API_KEY, chart, prompt, analise, profile>>

Next ==
    \/ Completude
    \/ Unicidade
    \/ Consistencia
    \/ Precisao
    \/ Integridade
    \/ ComputeScoreFinal
    \/ Diagnostico
    \/ SemChave
    \/ Request
    \/ Response
    \/ RequestError
    \/ Profiling
    \/ Recomendacoes

Spec == Init /\ [][Next]_vars

\* the steps of the sections that follow score_final
ReportNext ==
    \/ Diagnostico
    \/ SemChave
    \/ Request
    \/ Response
    \/ RequestError
    \/ Profiling
    \/ Recomendacoes

\* once score_final is computed the script runs top to bottom without
\* waiting for anything but the answer of the request, which returns or
\* raises (the client gives up after its timeout): a step of these
\* sections that can be taken is taken
FairSpec == Spec /\ WF_vars(ReportNext)

----------------------------------------------------------------------------
(* Properties                                                              *)

\* the scoring is over: score_final is computed, or an exception ended
\* the run
Finished == pc \in {"done", "raised"}

Computed(criterio) == criterio \in DOMAIN scores

AllEmpty(diag) == \A c \in Criterios : diag[c] = <<>>

\* C1: for every dataset, each of the five criterion scores is an integer
\* in 1..5 and the overall score lies in [1.0, 5.0] (10..50 in tenths).
C1_ScoresInRange ==
    Finished =>
        /\ DOMAIN scores = Criterios
        /\ \A c \in Criterios : scores[c] \in 1..5
        /\ score_final # None
        /\ score_final[1] \in 10..50

\* C2: on a dataset with zero rows or zero columns calcular_scores does not
\* fail, and every criterion returns a score in 1..5.
C2_EmptyDatasetSafe ==
    (Finished /\ (NumRows(df) = 0 \/ NumCols(df) = 0)) =>
        /\ pc # "raised"
        /\ DOMAIN scores = Criterios
        /\ \A c \in Criterios : scores[c] \in 1..5

\* C3: a failure on one column (a name that is not a string) is caught
\* locally: on a dataset with rows and columns the evaluation is never
\* aborted and all five scores are returned.
C3_ColumnFailureIsLocal ==
    (Finished /\ NumRows(df) > 0 /\ NumCols(df) > 0) =>
        /\ pc # "raised"
        /\ DOMAIN scores = Criterios

\* C5: on the end-to-end dataset (100 rows; id = 1..100, valor = 1.0..100.0,
\* nome = Ana1..Ana100) the run ends with the five scores equal to 5, every
\* diagnostic list empty and the overall score 5.0.
C5_EndToEnd ==
    (Finished /\ NumRows(df) = 100 /\ df = EndToEnd(0)) =>
        /\ pc = "done"
        /\ scores = [c \in Criterios |-> 5]
        /\ AllEmpty(diagnostico_colunas)
        /\ score_final = <<50>>

C5_Witness ==
    pc = "done" /\ score_final = <<50>> /\ NumRows(df) = 100 /\ df = EndToEnd(0)

\* the names of the columns whose index is in idx, in column order
NamesAt(d, idx) ==
    LET Rank(c) == Cardinality({x \in idx : x <= c})
    IN  [j \in 1..Cardinality(idx) |-> d.columns[CHOOSE c \in idx : Rank(c) = j].name]

NonEmpty(d) == NumRows(d) >= 1 /\ NumCols(d) >= 1

NullRows(d, c) == {i \in 1..NumRows(d) : d.columns[c].cells[i] = <<>>}

NullCells(d) == {<<c, i>> \in (1..NumCols(d)) \X (1..NumRows(d)) : i \in NullRows(d, c)}

Abs(x) == IF x < 0 THEN -x ELSE x

\* r is num / den rounded to the nearest integer, a half to the even one
IsRounded(r, num, den) ==
    \/ 2 * Abs(num - r * den) < den
    \/ 2 * Abs(num - r * den) = den /\ r % 2 = 0

\* Completude is done and Unicidade is next
AfterCompletude == pc = "unicidade"

\* C6: on a dataset with a row and a column the Completeness score is
\* max(1, round((1 - m) * 100 / 20)), m the mean over the columns of the
\* fraction of null cells of a column (the columns have the same number of
\* rows: m is the fraction of null cells of the dataset); the score is 5
\* when no cell is null and 1 when every cell is null.
C6_CompletudeFormula ==
    (NonEmpty(df) /\ AfterCompletude) =>
        LET cells == NumRows(df) * NumCols(df)
            nulls == Cardinality(NullCells(df))
        IN  /\ Computed("Completude")
            /\ \E r \in 0..5 :
                 /\ IsRounded(r, 5 * (cells - nulls), cells)
                 /\ scores["Completude"] = IF r < 1 THEN 1 ELSE r
            /\ nulls = 0 => scores["Completude"] = 5
            /\ nulls = cells => scores["Completude"] = 1

\* C7: the Completeness diagnostic is the list, in column order, of the
\* columns whose null fraction is strictly above 0.3; with 40 of the 100
\* values of valor null in the end-to-end dataset, valor is listed and the
\* Completeness score is at most 4.
C7_CompletudeDiag ==
    (NonEmpty(df) /\ pc # "completude") =>
        /\ diagnostico_colunas["Completude"] =
             NamesAt(df, {c \in 1..NumCols(df) :
                            10 * Cardinality(NullRows(df, c)) > 3 * NumRows(df)})
        /\ (NumRows(df) = 100 /\ df = EndToEnd(40)) =>
             /\ diagnostico_colunas["Completude"] = <<StrName(Str_valor)>>
             /\ scores["Completude"] <= 4

\* a first column at exactly 0.3 is left out while the second is listed
C7_Witness ==
    /\ pc = "done"
    /\ NumCols(df) = 2
    /\ 10 * Cardinality(NullRows(df, 1)) = 3 * NumRows(df)
    /\ diagnostico_colunas["Completude"] = <<df.columns[2].name>>

AllRowsEqual(d) == \A i, j \in 1..NumRows(d) : Row(d, i) = Row(d, j)

NoEqualRows(d) == \A i, j \in 1..NumRows(d) : i # j => Row(d, i) # Row(d, j)

\* C8 as claimed: the Uniqueness score is 5 when no two rows are equal and
\* 1 for every dataset of two or more rows that are all equal.
C8_AllEqualScoresOne ==
    (NonEmpty(df) /\ pc \notin {"completude", "unicidade"}) =>
        /\ NoEqualRows(df) => scores["Unicidade"] = 5
        /\ (NumRows(df) >= 2 /\ AllRowsEqual(df)) => scores["Unicidade"] = 1

\* C8 amended: the Uniqueness score is 5 when no two rows are equal; when
\* all rows are equal it is 1 from four rows on, and 2 with two or three
\* rows (1/2 and 1/3 of 5 round to 2).
C8_AllEqualFromFourRows ==
    (NonEmpty(df) /\ pc \notin {"completude", "unicidade"}) =>
        /\ Computed("Unicidade")
        /\ NoEqualRows(df) => scores["Unicidade"] = 5
        /\ (NumRows(df) >= 4 /\ AllRowsEqual(df)) => scores["Unicidade"] = 1
        /\ (NumRows(df) \in {2, 3} /\ AllRowsEqual(df)) => scores["Unicidade"] = 2

C8_Witness ==
    /\ pc = "done" /\ NumRows(df) >= 4 /\ AllRowsEqual(df)
    /\ scores["Unicidade"] = 1

\* the rows that repeat an earlier row: all rows but one of each distinct row
DuplicateCount(d) == NumRows(d) - Cardinality({Row(d, i) : i \in 1..NumRows(d)})

\* C9: the Uniqueness diagnostic holds exactly one message when the
\* fraction of duplicated rows is strictly above 0.2, and is empty
\* otherwise, also at exactly 0.2.
C9_UnicidadeDiag ==
    (NonEmpty(df) /\ pc \notin {"completude", "unicidade"}) =>
        /\ Len(diagnostico_colunas["Unicidade"]) =
             IF 5 * DuplicateCount(df) > NumRows(df) THEN 1 ELSE 0
        /\ \A j \in 1..Len(diagnostico_colunas["Unicidade"]) :
             diagnostico_colunas["Unicidade"][j] =
                <<"⚠", 65039, " Muitos registros duplicados">>
        /\ 5 * DuplicateCount(df) = NumRows(df) => diagnostico_colunas["Unicidade"] = <<>>

C9_Witness ==
    /\ pc = "done"
    /\ 5 * DuplicateCount(df) = NumRows(df)
    /\ diagnostico_colunas["Unicidade"] = <<>>

\* the rule of C10 for column c of d
C10_Rule(d, c) ==
    LET col   == d.columns[c]
        txt   == astype_str(col)
        total == Len(txt)
        num   == {i \in 1..total : MatchNumeric(Strip(txt[i]))}
        dat   == {i \in 1..total : MatchDate(Strip(txt[i]))}
    IN  /\ total >= 1
        /\ \/ /\ col.dtype \in {"int64", "float64", "bool"}
              /\ 10 * (total - Cardinality(num)) > total
           \/ /\ col.dtype = "datetime64"
              /\ 10 * (total - Cardinality(dat)) > total
           \/ /\ col.dtype = "object"
              /\ (2 * Cardinality(num) > total \/ 2 * Cardinality(dat) > total)

\* C10: the Consistency diagnostic is the list, in column order, of the
\* columns with a non-null cell that break the rule of their type: numeric,
\* more than 10% of the values are not numeric text; temporal, more than 10%
\* are not dates; textual, more than 50% are numeric text or more than 50%
\* are dates.  A float column of k values 1e-05 and n - k values 2.5 is
\* listed exactly when k / n > 0.1: not when every value matches (k = 0),
\* and when half of them do not.
C10_ConsistenciaDiag ==
    (NonEmpty(df) /\ pc \notin {"completude", "unicidade", "consistencia"}) =>
        /\ Computed("Consistencia")
        /\ diagnostico_colunas["Consistencia"] =
             NamesAt(df, {c \in 1..NumCols(df) : C10_Rule(df, c)})
        /\ \A k \in 0..NumRows(df) :
             df.columns[1] = ShapeColumn(StrName(Str_valor), "tiny", NumRows(df), k) =>
                ((\E j \in 1..Len(diagnostico_colunas["Consistencia"]) :
                     diagnostico_colunas["Consistencia"][j] = StrName(Str_valor))
                 <=> 10 * k > NumRows(df))

\* half of the values of the numeric column valor do not match: listed
C10_Witness ==
    /\ pc = "done"
    /\ \E k \in 1..NumRows(df) :
         /\ 2 * k = NumRows(df)
         /\ df.columns[1] = ShapeColumn(StrName(Str_valor), "tiny", NumRows(df), k)
    /\ diagnostico_colunas["Consistencia"][1] = StrName(Str_valor)

AllNull(d, c) == NullRows(d, c) = 1..NumRows(d)

\* Consistência is done and Precisão is next
AfterConsistencia == pc = "precisao"

\* C11 as claimed: the Consistency score is max(1, round((1 - flagged /
\* total) * 5)) where a column whose cells are all null does not enter
\* total, so that an all-null column beside other columns leaves the score
\* what it is without it.
C11_AllNullNotCounted ==
    (NonEmpty(df) /\ AfterConsistencia /\ Computed("Consistencia")) =>
        LET total   == Cardinality({c \in 1..NumCols(df) : ~AllNull(df, c)})
            flagged == Len(diagnostico_colunas["Consistencia"])
        IN  total >= 1 =>
              \E r \in 0..5 :
                 /\ IsRounded(r, 5 * (total - flagged), total)
                 /\ scores["Consistencia"] = IF r < 1 THEN 1 ELSE r

\* C11 amended: the Consistency score is max(1, round((1 - flagged /
\* total) * 5)) where total is the number of all columns: a column whose
\* cells are all null is never flagged but does enter total.  A flagged
\* column alone scores 1; with an all-null column beside it the score is 2.
C11_AllColumnsCounted ==
    (NonEmpty(df) /\ AfterConsistencia) =>
        LET total   == NumCols(df)
            flagged == Cardinality({c \in 1..NumCols(df) : C10_Rule(df, c)})
            listed  == diagnostico_colunas["Consistencia"]
        IN  /\ Computed("Consistencia")
            /\ \E r \in 0..5 :
                 /\ IsRounded(r, 5 * (total - flagged), total)
                 /\ scores["Consistencia"] = IF r < 1 THEN 1 ELSE r
            /\ \A c \in 1..NumCols(df) :
                 AllNull(df, c) => \A j \in 1..Len(listed) : listed[j] # df.columns[c].name
            /\ (NumCols(df) = 1 /\ flagged = 1) => scores["Consistencia"] = 1
            /\ (NumCols(df) = 2 /\ flagged = 1 /\ AllNull(df, 2)) => scores["Consistencia"] = 2

\* a flagged column and an all-null column: 1 - 1/2, score 2
C11_Witness ==
    /\ pc = "done"
    /\ NumCols(df) = 2 /\ AllNull(df, 2)
    /\ diagnostico_colunas["Consistencia"] = <<df.columns[1].name>>
    /\ scores["Consistencia"] = 2

\* Precisão is done and Integridade is next
AfterPrecisao == pc = "integridade"

\* the columns Precisão looks at: integers and floats
NumberCols(d) == {c \in 1..NumCols(d) : d.columns[c].dtype \in {"int64", "float64"}}

\* the non-null values of column c, by row
Valued(d, c) ==
    [i \in (1..NumRows(d)) \ NullRows(d, c) |-> d.columns[c].cells[i][1]]

\* four times the quartile q (1 or 3) of the values f: they are put in
\* order, at the places 0, 1, ..., and the quartile is interpolated
\* linearly between the two around the place (n - 1) * q / 4
Quartile4(f, q) ==
    LET n       == Cardinality(DOMAIN f)
        Place(i) == Cardinality({j \in DOMAIN f : f[j] < f[i] \/ (f[j] = f[i] /\ j < i)})
        At(k)   == f[CHOOSE i \in DOMAIN f : Place(i) = k]
        lo      == (q * (n - 1)) \div 4
        t       == (q * (n - 1)) % 4
    IN  IF t = 0 THEN 4 * At(lo) ELSE (4 - t) * At(lo) + t * At(lo + 1)

\* the rows of column c strictly below Q1 - 1.5 IQR or strictly above
\* Q3 + 1.5 IQR (eight times each side of the comparisons)
Outliers(d, c) ==
    LET f == Valued(d, c)
    IN  IF DOMAIN f = {} THEN {}
        ELSE LET Q1  == Quartile4(f, 1)
                 Q3  == Quartile4(f, 3)
                 IQR == Q3 - Q1
             IN  {i \in DOMAIN f : \/ 8 * f[i] < 2 * Q1 - 3 * IQR
                                   \/ 8 * f[i] > 2 * Q3 + 3 * IQR}

\* the first column holds k values -50 and 50 in turn and zeros elsewhere
FirstIsExtremes(d, k) ==
    /\ NumCols(d) >= 1
    /\ d.columns[1] = ShapeColumn(StrName(Str_valor), "extremes", NumRows(d), k)

\* C12: without a numeric column the Accuracy score is 5 and its diagnostic
\* empty; otherwise the score is max(1, round(5 * mean over the numeric
\* columns of (1 - outlier fraction))), an outlier being a row strictly
\* below Q1 - 1.5 IQR or strictly above Q3 + 1.5 IQR, and the diagnostic
\* lists, in column order, the numeric columns whose outlier fraction is
\* strictly above 0.3.  Ten rows, all zero but two at -50 and two at 50:
\* both quartiles are 0, four rows are outliers, the column is listed and
\* scores 3.  With two at -50 and one at 50 the fraction is exactly 0.3:
\* not listed, score 4.  A constant column has no outlier.
C12_PrecisaoFormula ==
    (NonEmpty(df) /\ AfterPrecisao) =>
        LET num     == NumberCols(df)
            out(c)  == Cardinality(Outliers(df, c))
            inliers == SumValues([c \in num |-> NumRows(df) - out(c)], num)
            score   == scores["Precisao"]
            listed  == diagnostico_colunas["Precisao"]
        IN  /\ Computed("Precisao")
            /\ num = {} => (score = 5 /\ listed = <<>>)
            /\ num # {} =>
                 /\ \E r \in 0..5 :
                      /\ IsRounded(r, 5 * inliers, NumRows(df) * Cardinality(num))
                      /\ score = IF r < 1 THEN 1 ELSE r
                 /\ listed = NamesAt(df, {c \in num : 10 * out(c) > 3 * NumRows(df)})
            /\ (NumRows(df) = 10 /\ NumCols(df) = 1 /\ FirstIsExtremes(df, 4)) =>
                 (score = 3 /\ listed = <<StrName(Str_valor)>>)
            /\ (NumRows(df) = 10 /\ NumCols(df) = 1 /\ FirstIsExtremes(df, 3)) =>
                 (score = 4 /\ listed = <<>>)
            /\ (NumCols(df) = 1 /\ FirstIsExtremes(df, 0)) => (score = 5 /\ listed = <<>>)

\* C19: on a dataset with a numeric column the Accuracy score, whenever it
\* is computed, is 3, 4 or 5 and never 1 or 2: fewer than half of the rows
\* of a column lie strictly outside [Q1 - 1.5 IQR, Q3 + 1.5 IQR], so the
\* mean of (1 - outlier fraction) is above 0.5.
C19_PrecisaoAtLeastThree ==
    (AfterPrecisao /\ NumberCols(df) # {}) =>
        /\ \A c \in NumberCols(df) : 2 * Cardinality(Outliers(df, c)) < NumRows(df)
        /\ scores["Precisao"] \in 3..5

\* calcular_scores returns: the Integrity entries are written
Returned == pc = "returned"

\* s starts with p
StartsWith(s, p) == Len(s) >= Len(p) /\ SubSeq(s, 1, Len(p)) = p

\* the parts of a text between its ", "
RECURSIVE SplitComma(_)
SplitComma(s) ==
    LET at == {i \in 1..(Len(s) - 1) : s[i] = "," /\ s[i + 1] = " "}
    IN  IF at = {} THEN <<s>>
        ELSE LET i == CHOOSE x \in at : \A y \in at : x <= y
             IN  <<SubSeq(s, 1, i - 1)>> \o SplitComma(SubSeq(s, i + 2, Len(s)))

\* the problems the Integrity diagnostic holds for the column called name:
\* the parts of what follows "name: " in its entry
ProblemasOf(name) ==
    LET det   == diagnostico_colunas["Integridade"]
        start == name.s \o <<":", " ">>
        at    == {j \in 1..Len(det) : StartsWith(det[j], start)}
    IN  IF at = {} THEN <<>>
        ELSE LET entry == det[CHOOSE j \in at : TRUE]
             IN  SplitComma(SubSeq(entry, Len(start) + 1, Len(entry)))

Recorded(name, problema) ==
    \E i \in 1..Len(ProblemasOf(name)) : ProblemasOf(name)[i] = problema

TextCols(d) == {c \in 1..NumCols(d) : d.columns[c].dtype = "object"}

\* the non-null values of a textual column
TextValues(d, c) ==
    {d.columns[c].cells[i][1] : i \in (1..NumRows(d)) \ NullRows(d, c)}

\* C13: for every textual column the problem "capitalização inconsistente"
\* is recorded if and only if its non-null values hold both an all-lowercase
\* and an all-uppercase value; lowercase values alone pass the check.
C13_CapitalizacaoBoth ==
    Returned =>
        \A c \in TextCols(df) :
            Recorded(df.columns[c].name, CapitalizacaoInconsistente)
            <=> /\ \E v \in TextValues(df, c) : IsLower(v)
                /\ \E v \in TextValues(df, c) : IsUpper(v)

\* the numbers of digits of the non-null values of a textual column
DigitCounts(d, c) == {Len(OnlyDigits(v)) : v \in TextValues(d, c)}

\* the non-null values of a textual column that Integrity looks at: all of
\* them up to a hundred, and a hundred of them drawn by sample beyond
SampledValues(d, c) ==
    LET s == sample(d.columns[c]) IN {s[i] : i \in 1..Len(s)}

SampledDigitCounts(d, c) == {Len(OnlyDigits(v)) : v \in SampledValues(d, c)}

\* the textual columns whose name has a document keyword of known length
DocumentCols(d) ==
    {c \in TextCols(d) : d.columns[c].name.str
                           /\ expected_length(Lower(d.columns[c].name.s)) # 0}

\* "tamanho incorreto para " and the name of the column
WrongLength(d, c) == TamanhoIncorretoPara \o d.columns[c].name.s

\* C14 as claimed: every textual column whose name has cpf, cnpj, cep or
\* telefone gets the wrong-length problem, and so an Integrity entry,
\* whenever one of its non-null values has not the expected number of digits.
C14_DocumentLength ==
    Returned =>
        \A c \in DocumentCols(df) :
            LET exp == expected_length(Lower(df.columns[c].name.s))
            IN  (\E n \in DigitCounts(df, c) : n # exp) =>
                    /\ Recorded(df.columns[c].name, WrongLength(df, c))
                    /\ ProblemasOf(df.columns[c].name) # <<>>

\* C14 amended: such a column gets the wrong-length problem exactly when
\* one of its sampled values (all the non-null values up to a hundred, a
\* hundred drawn with a fixed seed beyond) has not the expected number of
\* digits, provided its name has none of id, cod, cd.  When it has one
\* (cep_cidade has id), the length is not compared with the expected one:
\* the wrong-length problem is never recorded, and the problem of codes is
\* recorded exactly when the sampled values differ in their number of
\* digits.  A column named CPF with a sampled value of three digits is
\* flagged; with 101 values, the one of three digits in the row the sample
\* leaves out, it is not.
C14_DocumentLengthUnlessCode ==
    Returned =>
        \A c \in DocumentCols(df) :
            LET name   == df.columns[c].name
                exp    == expected_length(Lower(name.s))
                isCode == \E kw \in KwCodigos : Contains(Lower(name.s), kw)
                counts == SampledDigitCounts(df, c)
            IN  /\ NumRows(df) - Cardinality(NullRows(df, c)) <= SampleLimit =>
                     SampledValues(df, c) = TextValues(df, c)
                /\ SampledValues(df, c) \subseteq TextValues(df, c)
                /\ ~isCode =>
                     /\ Recorded(name, WrongLength(df, c)) <=> \E n \in counts : n # exp
                     /\ ~Recorded(name, TamanhosInconsistentes)
                /\ isCode =>
                     /\ ~Recorded(name, WrongLength(df, c))
                     /\ Recorded(name, TamanhosInconsistentes)
                          <=> Cardinality(counts) > 1
                /\ (name = StrName(Str_CPF) /\ 3 \in counts) =>
                     /\ Recorded(name, WrongLength(df, c))
                     /\ ProblemasOf(name) # <<>>
                /\ (NumRows(df) = 101 /\ df = Sampled(LeftOut)) =>
                     /\ 3 \in DigitCounts(df, c)
                     /\ ProblemasOf(name) = <<>>
                /\ (NumRows(df) = 101 /\ df = Sampled(1)) =>
                     ProblemasOf(name) = <<WrongLength(df, c)>>

\* a column named CPF, one value of three digits among values of eleven
C14_Witness ==
    /\ pc = "done"
    /\ df.columns[1].name = StrName(Str_CPF)
    /\ DigitCounts(df, 1) = {3, 11}
    /\ ProblemasOf(StrName(Str_CPF)) = <<WrongLength(df, 1)>>

\* the columns Integrity treats as numeric: integers, floats and booleans
NumericCols(d) ==
    {c \in 1..NumCols(d) : d.columns[c].dtype \in {"int64", "float64", "bool"}}

\* the non-null values of a numeric column
NumericValues(d, c) ==
    {d.columns[c].cells[i][1] : i \in (1..NumRows(d)) \ NullRows(d, c)}

\* C15: for every numeric column, "valores negativos indevidos" is recorded
\* if and only if the lowercased name has valor, preço, quantidade or saldo
\* and a value is below 0; the binary check is applied if and only if the
\* name has binário or flag, and fails if and only if a non-null value is
\* neither 0 nor 1.  A column valor with a negative value gets the problem;
\* a column flag_ativo holding only 0 and 1 gets none.
C15_NumericChecks ==
    Returned =>
        \A c \in NumericCols(df) :
            LET col      == df.columns[c]
                low      == Lower(col.name.s)
                positivo == \E kw \in KwPositivos : Contains(low, kw)
                binario  == \E kw \in KwBinario : Contains(low, kw)
                vals     == NumericValues(df, c)
                negative == \E v \in vals : v < 0
                zeroOne  == vals \subseteq {0, One(col)}
            IN  /\ Recorded(col.name, ValoresNegativos) <=> (positivo /\ negative)
                /\ Recorded(col.name, ForaDeZeroUm) <=> (binario /\ ~zeroOne)
                /\ col_checks(col) = (IF positivo THEN 1 ELSE 0) + (IF binario THEN 1 ELSE 0)
                /\ (col.name = StrName(Str_valor) /\ negative) =>
                      ProblemasOf(col.name) = <<ValoresNegativos>>
                /\ (col.name = StrName(Str_flag_ativo) /\ zeroOne) =>
                      ProblemasOf(col.name) = <<>>

\* a column valor with a value -50, beside a column binário of 1s
C15_Witness ==
    /\ pc = "done"
    /\ NumCols(df) = 2
    /\ df.columns[1].name = StrName(Str_valor)
    /\ -50 \in NumericValues(df, 1)
    /\ ProblemasOf(StrName(Str_valor)) = <<ValoresNegativos>>
    /\ df.columns[2].name = StrName(Str_binario)
    /\ ProblemasOf(StrName(Str_binario)) = <<>>

\* the columns with at least one applied check, and those with a failed one
CheckedCols(d) == {c \in 1..NumCols(d) : col_checks(d.columns[c]) > 0}

FailedCols(d) ==
    {c \in CheckedCols(d) : col_passes(d.columns[c]) < col_checks(d.columns[c])}

\* six times the sum of passes / checks over the checked columns (a column
\* has one, two or three checks)
PassSixths(d) ==
    SumValues([c \in CheckedCols(d) |->
                 (6 * col_passes(d.columns[c])) \div col_checks(d.columns[c])],
              CheckedCols(d))

\* the problem texts an entry of column c can hold
ProblemTexts(d, c) ==
    {ValoresNegativos, ForaDeZeroUm, CapitalizacaoInconsistente,
     TamanhosInconsistentes, WrongLength(d, c), DatasForaDoPadrao}

\* "Data: capitalização inconsistente, datas fora do padrão"
Entry_Data ==
    <<"D", "a", "t", "a", ":", " ", "c", "a", "p", "i", "t", "a", "l", "i",
      "z", "a", "ç", "ã", "o", " ", "i", "n", "c", "o", "n", "s", "i", "s",
      "t", "e", "n", "t", "e", ",", " ", "d", "a", "t", "a", "s", " ", "f",
      "o", "r", "a", " ", "d", "o", " ", "p", "a", "d", "r", "ã", "o">>

\* C16: the Integrity score is 5 when no column had a check, and otherwise
\* max(1, round(5 * mean over the checked columns of passes / checks)); a
\* temporal column has one check and one pass; the diagnostic has exactly
\* one entry "<column>: <problems joined by comma>" for each column with a
\* failed check, in column order, and none for another column.  A column
\* Data holding only the text ana fails its two checks: score 1, one entry
\* with both problems.
C16_IntegridadeFormula ==
    Returned =>
        LET checked == CheckedCols(df)
            failed  == FailedCols(df)
            det     == diagnostico_colunas["Integridade"]
            score   == scores["Integridade"]
        IN  /\ checked = {} => score = 5
            /\ checked # {} =>
                 \E r \in 0..5 :
                    /\ IsRounded(r, 5 * PassSixths(df), 6 * Cardinality(checked))
                    /\ score = IF r < 1 THEN 1 ELSE r
            /\ Len(det) = Cardinality(failed)
            /\ \A j \in 1..Len(det) :
                 LET c     == CHOOSE x \in failed : Cardinality({y \in failed : y <= x}) = j
                     col   == df.columns[c]
                     start == col.name.s \o <<":", " ">>
                     parts == SplitComma(SubSeq(det[j], Len(start) + 1, Len(det[j])))
                 IN  /\ StartsWith(det[j], start)
                     /\ Len(parts) = col_checks(col) - col_passes(col)
                     /\ \A k \in 1..Len(parts) : parts[k] \in ProblemTexts(df, c)
                     /\ \A k, l \in 1..Len(parts) : k # l => parts[k] # parts[l]
            /\ \A c \in 1..NumCols(df) :
                 df.columns[c].dtype = "datetime64" =>
                    /\ col_checks(df.columns[c]) = 1
                    /\ col_passes(df.columns[c]) = 1
                    /\ ProblemasOf(df.columns[c].name) = <<>>
            /\ (NumCols(df) = 1 /\ NumRows(df) >= 1
                  /\ df.columns[1] = ShapeColumn(StrName(Str_Data), "dates", NumRows(df), 0)) =>
                 /\ score = 1
                 /\ det = <<Entry_Data>>

\* C20: for every column, when Integrity is done with it, passes plus the
\* number of recorded problems equals the number of applied checks, so
\* 0 <= passes <= checks; and a column with a check has all its checks
\* passed if and only if the diagnostic has no entry for it.
C20_PassesPlusProblemas ==
    Returned =>
        \A c \in 1..NumCols(df) :
            LET col == df.columns[c]
            IN  /\ col_passes(col) + Len(col_problemas(col)) = col_checks(col)
                /\ col_passes(col) \in 0..col_checks(col)
                /\ col_checks(col) > 0 =>
                     /\ Len(ProblemasOf(col.name)) = col_checks(col) - col_passes(col)
                     /\ col_passes(col) = col_checks(col) <=> ProblemasOf(col.name) = <<>>

\* a document column with one check passed and one failed
C20_Witness ==
    /\ pc = "done"
    /\ df.columns[1].name = StrName(Str_CPF)
    /\ col_checks(df.columns[1]) = 2
    /\ col_passes(df.columns[1]) = 1
    /\ Len(ProblemasOf(StrName(Str_CPF))) = 1

\* calcular_scores is still at work
Scoring == pc \in {"completude", "unicidade", "consistencia", "precisao", "integridade"}

\* C17: the overall score is the mean of exactly the five criterion scores
\* rounded to one decimal (in tenths: 2 * their sum); whenever
\* calcular_scores has returned, the score map and the diagnostic map have
\* exactly the five keys; the chart, the prompt and the recommendation
\* tabs get the score map as it was returned; and there is no overall
\* score without the five scores: a run whose scoring raised has none.
C17_OverallFromFiveScores ==
    /\ (~Scoring /\ pc # "raised") =>
          /\ DOMAIN scores = Criterios
          /\ DOMAIN diagnostico_colunas = Criterios
    /\ score_final # None =>
          /\ DOMAIN scores = Criterios
          /\ score_final[1] = 2 * SumValues(scores, Criterios)
    /\ DOMAIN scores # Criterios => (score_final = None /\ chart = None)
    /\ chart # None => chart[1] = scores
    /\ prompt # None =>
          /\ prompt[1].scores = scores
          /\ prompt[1].baixos = {c \in Criterios : scores[c] <= 3}
          /\ prompt[1].diagnostico = diagnostico_colunas
    /\ tabs # None => tabs[1] = {c \in Criterios : scores[c] <= 3}

\* a run to its end with an overall score that is not a whole number
C17_Witness ==
    /\ pc = "end"
    /\ score_final[1] % 10 # 0
    /\ chart = <<scores>>
    /\ prompt # None
    /\ tabs # None /\ tabs[1] # {}

\* the report is complete: profiling and recommendation sections are made
ReportProduced == pc = "end" /\ profile /\ tabs # None

\* C18: the request to the language model is made only after the five
\* scores and the overall score are computed; a request that raises does
\* not end the run; and whether the request was answered, raised, or was
\* not made for want of a key, the run goes on to make the profiling and
\* recommendation sections from the scores.
C18_ReportWhateverTheRequest ==
    /\ [](analise # "none" => (DOMAIN scores = Criterios /\ score_final # None))
    /\ [](pc = "raised" => analise = "none")
    /\ [](ReportProduced => tabs[1] = Baixos(scores))
    /\ (pc = "done") ~> ReportProduced

\* the request raised and the report is made without the analysis
C18_Witness == ReportProduced /\ OPENAI_API_KEY /\ analise = "error"

====
